---------------------------- MODULE Spec2Model ----------------------------
(***************************************************************************)
(* Model of the multi-step environment wrapper:                            *)
(*   src/multistep/wrapper.py      MultiStep (reset, step, _stack_obs)     *)
(*   src/multistep/buffers.py      StepBuffers (add_*, reduce)             *)
(*   src/multistep/space_utils.py  stack_last                              *)
(*                                                                         *)
(* The wrapped environment is an external collaborator: every value it     *)
(* returns (reset observation, inner-step observation, reward, terminated, *)
(* truncated, info) is an input chosen from a small set.                   *)
(*                                                                         *)
(* Python values are represented as follows.                               *)
(*   list / deque        sequence, oldest first                            *)
(*   dict                function whose DOMAIN is the set of keys          *)
(*   float               exact fraction <<numerator, denominator>>         *)
(*   raised exception    a result record whose kind names the exception    *)
(*   None / 0 (falsy)    0 for max_episode_steps                           *)
(***************************************************************************)
EXTENDS Integers, Sequences, FiniteSets, TLC

(***************************************************************************)
(* Bounds of the model.                                                    *)
(***************************************************************************)
MaxNObs == 2        \* n_obs ranges over 1..MaxNObs
MaxNAction == 2     \* n_action ranges over 1..MaxNAction
MaxInner == 4       \* inner environment steps explored per episode
MaxCeil == 2        \* max_episode_steps ranges over None and 1..MaxCeil

(***************************************************************************)
(* Inputs.                                                                 *)
(***************************************************************************)
ObsSet == {"A", "B"}                 \* observation frames the environment emits
ActSet == {"u", "v"}                 \* atomic actions

EmptyMap == [k \in {} |-> <<>>]

\* One result of env.step: (obs, reward, terminated, truncated, info)
EnvResult(o, r, te, tr, inf) ==
    [obs |-> o, rew |-> r, terminated |-> te, truncated |-> tr, info |-> inf]

\* The results the environment may return from one inner step.
EnvStepResults ==
    { EnvResult("A", 2, FALSE, FALSE, EmptyMap),
      EnvResult("B", -1, FALSE, FALSE, [k \in {"a"} |-> 1]),
      EnvResult("B", 2, FALSE, FALSE, [k \in {"a", "b"} |-> IF k = "a" THEN 2 ELSE 1]),
      EnvResult("A", -1, TRUE, FALSE, [k \in {"a"} |-> 2]),
      EnvResult("B", 2, FALSE, TRUE, EmptyMap),
      EnvResult("A", 2, TRUE, TRUE, [k \in {"b"} |-> 2]) }

\* Action sequences a caller may pass to step: every length 0..MaxNAction+1.
RECURSIVE SeqsUpTo(_, _)
SeqsUpTo(S, n) ==
    IF n = 0 THEN { <<>> }
    ELSE LET shorter == SeqsUpTo(S, n - 1)
         IN  shorter \cup { Append(s, x) : s \in { t \in shorter : Len(t) = n - 1 }, x \in S }

ActionSeqs == SeqsUpTo(ActSet, MaxNAction + 1)

ReduceModes == {"max", "min", "mean", "sum"}       \* keys of agg_fn_map
ModeChoices == {"max", "mean", "median"}           \* reward_reduce values tried

VARIABLES
    n_obs,          \* self.n_obs
    n_action,       \* self.n_action
    reward_reduce,  \* self.reward_reduce
    max_ep,         \* self.max_ep (0 stands for None)
    buf,            \* self.buf : StepBuffers
    pc,             \* position of the caller: "idle", or inside step: "loop", "reduce"
    pending,        \* actions the for-loop of step has not consumed yet
    ret,            \* outcome of the last completed call of reset or step
    obsHist,        \* history: every observation the environment returned since the buffer was created
    callSteps,      \* history: inner steps executed by the current / last step call
    envLog,         \* history: actions passed to env.step by the current / last step call
    epSteps,        \* history: inner steps executed since the buffer was created
    phase,          \* history: "new" (no reset yet), "reset" / "resetAfterDone" (until the first
                    \*          step call after a reset has finished), "later"
    callArg,        \* history: the action sequence passed to the step call in progress
    infoHist,       \* history: per info field, every value the environment returned for it
                    \*          since the buffer was created
    spaces,         \* env.observation_space, env.action_space, self._obs_space, self._act_space
    probe           \* a single call of stack_last, reduce or a space property: arguments and outcome

vars == << n_obs, n_action, reward_reduce, max_ep, buf, pc, pending, ret,
           obsHist, callSteps, envLog, epSteps, phase, callArg, infoHist,
           spaces, probe >>

config == << n_obs, n_action, reward_reduce, max_ep, spaces >>

(***************************************************************************)
(* Arithmetic helpers.                                                     *)
(***************************************************************************)
Max(a, b) == IF a >= b THEN a ELSE b
Min(a, b) == IF a <= b THEN a ELSE b
Abs(a) == IF a < 0 THEN -a ELSE a

RECURSIVE Gcd(_, _)
Gcd(a, b) == IF b = 0 THEN a ELSE Gcd(b, a % b)

\* A float with an exact value num/den, in lowest terms.
Frac(num, den) ==
    LET g == Gcd(Abs(num), den) IN << num \div g, den \div g >>
NaN == << 0, 0 >>

RECURSIVE SeqSum(_)
SeqSum(s) == IF s = <<>> THEN 0 ELSE s[1] + SeqSum(Tail(s))
RECURSIVE SeqMax(_)
SeqMax(s) == IF Len(s) = 1 THEN s[1] ELSE Max(s[1], SeqMax(Tail(s)))
RECURSIVE SeqMin(_)
SeqMin(s) == IF Len(s) = 1 THEN s[1] ELSE Min(s[1], SeqMin(Tail(s)))
AnyTrue(s) == \E j \in 1..Len(s) : s[j]

\* Python slice arr[-n:] of a list (n >= 0): the last n items, all of them when
\* n = 0 or n >= len(arr).
LastN(arr, n) ==
    IF n = 0 \/ n >= Len(arr) THEN arr ELSE SubSeq(arr, Len(arr) - n + 1, Len(arr))

Repeat(x, k) == [j \in 1..k |-> x]

\* Variant of stack_last: short histories are padded with the newest frame.
stack_last_pad_newest(arr, n) ==
    LET pad  == Max(0, n - Len(arr))
        core == LastN(arr, n)
    IN  IF pad # 0 THEN Repeat(core[Len(core)], pad) \o core ELSE core

(***************************************************************************)
(* space_utils.stack_last, for a non-empty list of frames.                 *)
(*     pad  = max(0, n - len(arr))                                         *)
(*     core = np.stack(arr[-n:])                                           *)
(*     if pad: core = concatenate([repeat(core[:1], pad), core])           *)
(***************************************************************************)
stack_last(arr, n) ==
    LET pad  == Max(0, n - Len(arr))
        core == LastN(arr, n)
    IN  IF pad # 0 THEN Repeat(core[1], pad) \o core ELSE core

(***************************************************************************)
(* buffers.StepBuffers                                                     *)
(***************************************************************************)
\* Variant of DequeAppend: a deque created without maxlen never evicts.
DequeAppendUnbounded(d, x, m) == Append(d, x)

\* deque(maxlen = m).append(x): the oldest item is dropped when the deque is full.
DequeAppend(d, x, m) ==
    IF Len(d) >= m THEN Append(Tail(d), x) ELSE Append(d, x)

\* StepBuffers(n): the dataclass after __post_init__.
StepBuffers(n) ==
    [n_obs |-> n, obs |-> <<>>, rewards |-> <<>>, dones |-> <<>>, infos |-> EmptyMap]

add_obs(b, o) == [b EXCEPT !.obs = DequeAppend(@, o, b.n_obs + 1)]

add_reward(b, r) == [b EXCEPT !.rewards = Append(@, r)]

\* Variant of add_done: only a true flag is recorded.
add_done_only_true(b, d) == IF d THEN [b EXCEPT !.dones = Append(@, d)] ELSE b

add_done(b, d) == [b EXCEPT !.dones = Append(@, d)]

\* for k, v in info.items(): self.infos.setdefault(k, deque(maxlen=n_obs+1)).append(v)
add_info(b, info) ==
    [b EXCEPT !.infos =
        [k \in (DOMAIN b.infos) \cup (DOMAIN info) |->
            IF k \in DOMAIN info
            THEN DequeAppend(IF k \in DOMAIN b.infos THEN b.infos[k] ELSE <<>>,
                             info[k], b.n_obs + 1)
            ELSE b.infos[k]]]

\* The numpy reduction agg_fn_map[agg] applied to a list of rewards.
\* np.max / np.min of an empty list raise ValueError; np.mean gives nan; np.sum 0.
AggFn(agg, rewards) ==
    IF rewards = <<>>
    THEN IF agg \in {"max", "min"} THEN [kind |-> "ValueError", val |-> NaN]
         ELSE IF agg = "mean" THEN [kind |-> "ok", val |-> NaN]
         ELSE [kind |-> "ok", val |-> Frac(0, 1)]
    ELSE [kind |-> "ok",
          val  |-> CASE agg = "max"  -> Frac(SeqMax(rewards), 1)
                     [] agg = "min"  -> Frac(SeqMin(rewards), 1)
                     [] agg = "mean" -> Frac(SeqSum(rewards), Len(rewards))
                     [] agg = "sum"  -> Frac(SeqSum(rewards), 1)]

\* Variant of reduce: done is the newest flag only, not the OR of all flags.
reduce_newest_flag(b, agg) ==
    IF agg \notin ReduceModes
    THEN [kind |-> "ValueError", reward |-> NaN, done |-> FALSE]
    ELSE LET r == AggFn(agg, b.rewards)
         IN  IF r.kind # "ok" \/ b.dones = <<>>
             THEN [kind |-> "ValueError", reward |-> NaN, done |-> FALSE]
             ELSE [kind |-> "ok", reward |-> r.val, done |-> b.dones[Len(b.dones)]]

\* StepBuffers.reduce(agg) -> (reward, done), or the exception it raises.
reduce(b, agg) ==
    IF agg \notin ReduceModes
    THEN [kind |-> "ValueError", reward |-> NaN, done |-> FALSE]
    ELSE LET r == AggFn(agg, b.rewards)
         IN  IF r.kind # "ok" \/ b.dones = <<>>      \* np.max([]) raises ValueError
             THEN [kind |-> "ValueError", reward |-> NaN, done |-> FALSE]
             ELSE [kind |-> "ok", reward |-> r.val, done |-> AnyTrue(b.dones)]

(***************************************************************************)
(* wrapper.MultiStep                                                       *)
(***************************************************************************)
\* d[-n:] on a collections.deque: deque indexing accepts integers only, a slice
\* raises TypeError ("sequence index must be integer, not 'slice'").
DequeSlice(d, n) == [kind |-> "TypeError", val |-> <<>>]

\* MultiStep._stack_obs:
\*     head = self.buf.obs[-self.n_obs:]
\*     return stack_last(list(head), self.n_obs)
StackObs(b, n) ==
    LET head == DequeSlice(b.obs, n)
    IN  IF head.kind # "ok" THEN [kind |-> head.kind, val |-> <<>>]
        ELSE [kind |-> "ok", val |-> stack_last(head.val, n)]

\* {k: stack_last(v, self.n_obs) for k, v in self.buf.infos.items()}
\* Every window v is a collections.deque, and stack_last slices its argument
\* (arr[-n:]) before stacking, so the first field raises TypeError; with no
\* field recorded the result is the empty dict.
StackInfos(b, n) ==
    LET cores == [k \in DOMAIN b.infos |-> DequeSlice(b.infos[k], n)]
    IN  IF \E k \in DOMAIN cores : cores[k].kind # "ok"
        THEN [kind |-> "TypeError", val |-> EmptyMap]
        ELSE [kind |-> "ok",
              val |-> [k \in DOMAIN cores |->
                          LET pad == Max(0, n - Len(b.infos[k]))
                              core == cores[k].val
                          IN  IF pad # 0 THEN Repeat(core[1], pad) \o core ELSE core]]

\* Outcomes of a call: a returned value or a raised exception.
Raised(op, exc) ==
    [op |-> op, kind |-> exc, obs |-> <<>>, reward |-> NaN, done |-> FALSE, info |-> EmptyMap]
Returned(op, o, r, d, inf) ==
    [op |-> op, kind |-> "ok", obs |-> o, reward |-> r, done |-> d, info |-> inf]
NoCall == Raised("none", "none")

\* Variant of AssertLen: the assertion is missing (or stripped).
AssertLenOff(action, n) == TRUE

\* assert len(action) == self.n_action
AssertLen(action, n) == Len(action) = n

\* Variant of LoopBreak: the loop never stops early.
LoopBreakNever(b) == FALSE

\* Variant of LoopBreak: any recorded flag stops the loop, true or not.
LoopBreakNonEmpty(b) == b.dones # <<>>

\* Variant of LoopBreak: an empty list of flags stops the loop as well.
LoopBreakEmptyToo(b) == IF b.dones = <<>> THEN TRUE ELSE b.dones[Len(b.dones)]

\* if self.buf.dones and self.buf.dones[-1]: break
LoopBreak(b) == b.dones # <<>> /\ b.dones[Len(b.dones)]

\* if self.max_ep and len(self.buf.rewards) >= self.max_ep: d_red = True
Ceiling(b, m) == m # 0 /\ Len(b.rewards) >= m

\* The body of one loop iteration of step after the break test: one inner step
\* whose result r the environment returned.
InnerBody(b, r) ==
    add_info(add_done(add_reward(add_obs(b, r.obs), r.rew),
                      r.terminated \/ r.truncated),
             r.info)

\* The tail of step, after the loop: reduce, ceiling, stacking, return.
StepResult(b, n, agg, m) ==
    LET red == reduce(b, agg) IN
    IF red.kind # "ok" THEN Raised("step", red.kind)
    ELSE LET d_red == red.done \/ Ceiling(b, m)
             so    == StackObs(b, n)
             si    == StackInfos(b, n)
         IN  IF so.kind # "ok" THEN Raised("step", so.kind)
             ELSE IF si.kind # "ok" THEN Raised("step", si.kind)
             ELSE Returned("step", so.val, red.reward, d_red, si.val)

(***************************************************************************)
(* space_utils.repeated_box / repeated_space.                              *)
(* A numeric array is [shape, data]: its shape and its items in row-major  *)
(* order.  A space is a record [kind, low, high, dtype, items]: a Box has  *)
(* bound arrays and a dtype, a Dict has items (key -> space).  Bounds are  *)
(* whole numbers in 0..255, which the cast to uint8 leaves unchanged.      *)
(***************************************************************************)
Arr(shape, data) == [shape |-> shape, data |-> data]
NoArr == Arr(<< >>, << >>)

Box(low, high, dtype) ==
    [kind |-> "Box", low |-> low, high |-> high, dtype |-> dtype, items |-> EmptyMap]
DictSpace(items) ==
    [kind |-> "Dict", low |-> NoArr, high |-> NoArr, dtype |-> "", items |-> items]
OtherSpace(kind) ==
    [kind |-> kind, low |-> NoArr, high |-> NoArr, dtype |-> "", items |-> EmptyMap]
SpaceError == OtherSpace("TypeError")       \* raise TypeError(f"Unsupported space ...")
NoSpace == OtherSpace("None")

RECURSIVE Tile(_, _)
Tile(data, n) == IF n = 0 THEN << >> ELSE data \o Tile(data, n - 1)

\* np.repeat(a[None, ...], n, axis=0): n copies of a along a new leading axis.
RepeatLeading(a, n) == Arr(<< n >> \o a.shape, Tile(a.data, n))

\* repeated_box: spaces.Box(low=rep(low), high=rep(high), dtype=np.uint8)
repeated_box(box, n) ==
    Box(RepeatLeading(box.low, n), RepeatLeading(box.high, n), "uint8")

\* repeated_space: Box -> repeated_box, Dict -> key by key, anything else raises
\* TypeError (an error in any value of a Dict propagates).
RECURSIVE repeated_space(_, _)
repeated_space(space, n) ==
    IF space.kind = "Box" THEN repeated_box(space, n)
    ELSE IF space.kind = "Dict"
    THEN LET sub == [k \in DOMAIN space.items |-> repeated_space(space.items[k], n)]
         IN  IF \E k \in DOMAIN sub : sub[k] = SpaceError THEN SpaceError
             ELSE DictSpace(sub)
    ELSE SpaceError

\* The spaces a wrapped environment may declare, by name.
SpaceNames == {"vec", "img", "dict", "nested", "discrete", "dictbad"}
VecSpace == Box(Arr(<< 3 >>, << 0, 0, 0 >>), Arr(<< 3 >>, << 1, 2, 1 >>), "float32")
ImgSpace == Box(Arr(<< 1, 2 >>, << 0, 0 >>), Arr(<< 1, 2 >>, << 255, 255 >>), "uint8")
PairSpace == DictSpace([k \in {"img", "pos"} |-> IF k = "img" THEN ImgSpace ELSE VecSpace])
SpaceNamed(name) ==
    CASE name = "vec"      -> VecSpace
      [] name = "img"      -> ImgSpace
      [] name = "dict"     -> PairSpace
      [] name = "nested"   -> DictSpace([k \in {"cam", "x"} |-> IF k = "cam" THEN PairSpace ELSE VecSpace])
      [] name = "discrete" -> OtherSpace("Discrete")
      [] name = "dictbad"  -> DictSpace([k \in {"bad", "x"} |-> IF k = "bad" THEN OtherSpace("Discrete") ELSE VecSpace])

\* MultiStep.__init__, lines 46-47: the stacked spaces, or the TypeError that
\* repeated_space raised (the observation space is transformed first).
Construct(obsName, actName, no, na) ==
    LET o == repeated_space(SpaceNamed(obsName), no)
        a == repeated_space(SpaceNamed(actName), na)
        failed == o = SpaceError \/ a = SpaceError
    IN  [env_obs |-> SpaceNamed(obsName), env_act |-> SpaceNamed(actName),
         ctor |-> IF failed THEN "TypeError" ELSE "ok",
         obs |-> IF failed THEN NoSpace ELSE o,
         act |-> IF failed THEN NoSpace ELSE a]

\* Outcome of one probed call.
Probe(fn, args, kind, out) == [fn |-> fn, args |-> args, kind |-> kind, out |-> out]
NoProbe == Probe("none", << >>, "none", << >>)

\* History of the info records env.step returned: value info[k] is appended to
\* the history of every field k of the record.
RecordInfo(h, info) ==
    [k \in (DOMAIN h) \cup (DOMAIN info) |->
        IF k \in DOMAIN info
        THEN Append(IF k \in DOMAIN h THEN h[k] ELSE <<>>, info[k])
        ELSE h[k]]

(***************************************************************************)
(* Initial state: MultiStep.__init__ with its arguments chosen.            *)
(***************************************************************************)
Init ==
    /\ n_obs \in 1..MaxNObs
    /\ n_action \in 1..MaxNAction
    /\ reward_reduce \in ModeChoices
    /\ max_ep \in 0..MaxCeil
    /\ buf = StepBuffers(n_obs)
    /\ pc = "idle"
    /\ pending = <<>>
    /\ ret = NoCall
    /\ obsHist = <<>>
    /\ callSteps = 0
    /\ envLog = <<>>
    /\ epSteps = 0
    /\ phase = "new"
    /\ callArg = <<>>
    /\ infoHist = EmptyMap
    /\ spaces = Construct("vec", "vec", n_obs, n_action)
    /\ probe = NoProbe

\* Variant of reset: the buffer is kept and the new observation appended to it.
reset_keep_buffer(o) ==
    /\ pc = "idle"
    /\ buf' = add_obs(buf, o)
    /\ ret' = Raised("reset", "TypeError")
    /\ obsHist' = << o >>
    /\ epSteps' = 0
    /\ phase' = IF buf.dones # <<>> /\ buf.dones[Len(buf.dones)] THEN "resetAfterDone" ELSE "reset"
    /\ callSteps' = 0
    /\ envLog' = <<>>
    /\ infoHist' = EmptyMap
    /\ UNCHANGED << config, probe, pc, pending, callArg >>

(***************************************************************************)
(* MultiStep.reset: the environment returns observation o.                 *)
(***************************************************************************)
reset(o) ==
    /\ pc = "idle"
    /\ LET fresh == add_obs(StepBuffers(n_obs), o)
           so    == StackObs(fresh, n_obs)
       IN  /\ buf' = fresh
           /\ ret' = IF so.kind # "ok" THEN Raised("reset", so.kind)
                     ELSE Returned("reset", so.val, NaN, FALSE, EmptyMap)
    /\ obsHist' = << o >>
    /\ epSteps' = 0
    /\ phase' = IF LoopBreak(buf) THEN "resetAfterDone" ELSE "reset"
    /\ callSteps' = 0
    /\ envLog' = <<>>
    /\ infoHist' = EmptyMap
    /\ UNCHANGED << config, probe, pc, pending, callArg >>

(***************************************************************************)
(* MultiStep.step(action), in three positions: the entry (assertion), one  *)
(* loop iteration at a time, the tail after the loop.                      *)
(***************************************************************************)
\* The model explores a call only when the inner steps it can execute fit in MaxInner.
Explored(action) ==
    \/ ~AssertLen(action, n_action)
    \/ LoopBreak(buf)
    \/ epSteps + Len(action) <= MaxInner

StepCall(action) ==
    /\ pc = "idle"
    /\ Explored(action)
    /\ callSteps' = 0
    /\ envLog' = <<>>
    /\ IF ~AssertLen(action, n_action)
       THEN /\ ret' = Raised("step", "AssertionError")
            /\ UNCHANGED << pc, pending, callArg >>
       ELSE /\ pc' = IF action = <<>> THEN "reduce" ELSE "loop"
            /\ pending' = action
            /\ callArg' = action
            /\ UNCHANGED ret
    /\ UNCHANGED << config, probe, buf, obsHist, epSteps, phase, infoHist >>

\* for sub_act in action: the break test finds a recorded termination.
InnerBreak ==
    /\ pc = "loop"
    /\ LoopBreak(buf)
    /\ pc' = "reduce"
    /\ pending' = <<>>
    /\ UNCHANGED << config, probe, buf, ret, obsHist, callSteps, envLog, epSteps, phase,
                    callArg, infoHist >>

\* for sub_act in action: one inner step, the environment returns r.
InnerStep(r) ==
    /\ pc = "loop"
    /\ ~LoopBreak(buf)
    /\ epSteps < MaxInner
    /\ buf' = InnerBody(buf, r)
    /\ pending' = Tail(pending)
    /\ pc' = IF Tail(pending) = <<>> THEN "reduce" ELSE "loop"
    /\ obsHist' = Append(obsHist, r.obs)
    /\ callSteps' = callSteps + 1
    /\ envLog' = Append(envLog, Head(pending))
    /\ epSteps' = epSteps + 1
    /\ infoHist' = RecordInfo(infoHist, r.info)
    /\ UNCHANGED << config, probe, ret, phase, callArg >>

\* After the loop: reduce, ceiling, stacking; the call returns or raises.
StepFinish ==
    /\ pc = "reduce"
    /\ ret' = StepResult(buf, n_obs, reward_reduce, max_ep)
    /\ pc' = "idle"
    /\ pending' = <<>>
    /\ phase' = IF phase = "new" THEN "new" ELSE "later"
    /\ callArg' = <<>>
    /\ UNCHANGED << config, probe, buf, obsHist, callSteps, envLog, epSteps, infoHist >>

Next ==
    \/ \E o \in ObsSet : reset(o)
    \/ \E action \in ActionSeqs : StepCall(action)
    \/ InnerBreak
    \/ \E r \in EnvStepResults : InnerStep(r)
    \/ StepFinish

Spec == Init /\ [][Next]_vars

(***************************************************************************)
(* Vocabulary of the properties.                                           *)
(***************************************************************************)
\* The last completed call was a step call whose assertion passed.
StepCompleted == pc = "idle" /\ ret.op = "step" /\ ret.kind # "AssertionError"

\* The last completed call was a reset.
ResetCompleted == pc = "idle" /\ ret.op = "reset"

\* reward_reduce names a supported reduction.
ValidMode == reward_reduce \in ReduceModes

\* The n most recent items of history h, oldest first, preceded by copies of
\* the oldest item of h when h holds fewer than n.
RecentWindow(h, n) ==
    [j \in 1..n |-> IF Len(h) >= n THEN h[Len(h) - n + j]
                    ELSE IF j <= n - Len(h) THEN h[1] ELSE h[j - (n - Len(h))]]

\* The termination flags recorded by the inner steps of the current / last step call.
CallDones == SubSeq(buf.dones, Len(buf.dones) - callSteps + 1, Len(buf.dones))

\* A termination was already recorded when the current / last step call started.
StartLatched ==
    LET m == Len(buf.dones) - callSteps IN m >= 1 /\ buf.dones[m]

(***************************************************************************)
(* C1. After reset and any sequence of step calls, step returns a stacked  *)
(* observation of exactly n_obs frames: the n_obs most recent observations *)
(* received since that reset, oldest first, left-padded with the oldest    *)
(* one when fewer than n_obs have been received.                           *)
(* Stated as the claim; the code violates it: _stack_obs slices a deque,   *)
(* which raises TypeError, so step never returns.                          *)
(***************************************************************************)
C1_StepReturnsRecentWindow ==
    (StepCompleted /\ phase # "new" /\ ValidMode)
        => (ret.kind = "ok" /\ ret.obs = RecentWindow(obsHist, n_obs))

(***************************************************************************)
(* C2. reset returns a stacked observation of exactly n_obs frames, each   *)
(* equal to the observation the environment's reset returned.              *)
(* Stated as the claim; the code violates it: reset ends in _stack_obs,    *)
(* which raises TypeError.                                                 *)
(***************************************************************************)
C2_ResetReturnsCopies ==
    ResetCompleted => (ret.kind = "ok" /\ ret.obs = Repeat(obsHist[1], n_obs))

(***************************************************************************)
(* C3. Within one step call the environment is never stepped after an      *)
(* inner step of that call signalled terminated or truncated: only the     *)
(* last inner step executed by a call can have signalled done, so when the *)
(* k-th inner step is the first to signal done exactly k are executed.     *)
(***************************************************************************)
C3_NoInnerStepAfterDone ==
    /\ callSteps <= Len(buf.dones)
    /\ \A j \in 1..Len(CallDones) : CallDones[j] => j = callSteps
    /\ Len(envLog) = callSteps

\* A call of n_action = 2 actions stopped after its first inner step signalled done.
C3_Witness ==
    /\ pc = "reduce" /\ n_action = 2 /\ callSteps = 1
    /\ CallDones = << TRUE >>

(***************************************************************************)
(* C4. step with an action sequence whose length differs from n_action     *)
(* fails with an error, makes no call to the environment and leaves the    *)
(* buffer unchanged: every transition that is such a call, for any action  *)
(* sequence of a wrong length, ends the call at once with AssertionError   *)
(* and changes neither the buffer nor the count of environment steps.      *)
(***************************************************************************)
C4_LengthMismatchFailsCleanly ==
    [][ (\E a \in ActionSeqs : StepCall(a) /\ Len(a) # n_action)
              => /\ ret'.op = "step" /\ ret'.kind = "AssertionError"
                 /\ pc' = "idle"
                 /\ buf' = buf
                 /\ callSteps' = 0 /\ envLog' = <<>>
                 /\ epSteps' = epSteps /\ obsHist' = obsHist ]_vars

\* A mismatched call has failed while the buffer held an episode in progress.
C4_Witness ==
    /\ pc = "idle" /\ ret.op = "step" /\ ret.kind = "AssertionError"
    /\ buf.rewards # <<>> /\ buf.infos # EmptyMap

(***************************************************************************)
(* C5. With max_episode_steps = M and an environment that never signals    *)
(* terminated or truncated, a step call returns done = true if and only if *)
(* the inner steps taken since the last reset number at least M.           *)
(* Stated as the claim; the code violates it because step raises TypeError *)
(* (see C1) instead of returning once the count has reached M.             *)
(***************************************************************************)
C5_CeilingDoneIff ==
    (StepCompleted /\ phase # "new" /\ ValidMode /\ max_ep # 0 /\ ~AnyTrue(buf.dones))
        => ((ret.kind = "ok" /\ ret.done) <=> (epSteps >= max_ep))

(***************************************************************************)
(* C6. The reward list is cleared at the start of each step call, so when  *)
(* a call reduces it the list holds exactly one entry per inner step       *)
(* executed during that call.                                              *)
(* Stated as the claim; the code violates it: nothing clears the list      *)
(* between step calls, only reset replaces it.                             *)
(***************************************************************************)
C6_RewardsOfThisCallOnly ==
    pc = "reduce" => Len(buf.rewards) = callSteps

(***************************************************************************)
(* C7 as stated: once reset has been called, every step call given         *)
(* n_action >= 1 actions executes at least one inner step.                 *)
(***************************************************************************)
C7_Original ==
    (pc = "reduce" /\ phase # "new") => callSteps >= 1

(***************************************************************************)
(* C7 amended: a step call given n_action >= 1 actions executes at least   *)
(* one inner step exactly when no termination was recorded in the buffer   *)
(* at the start of the call (its last flag is not true); a call that       *)
(* starts with a recorded termination executes none.                       *)
(***************************************************************************)
C7_InnerStepUnlessLatched ==
    pc = "reduce" => (callSteps >= 1 <=> ~StartLatched)

\* After a reset, a later call (not the first) that began without a recorded
\* termination has executed inner steps.
C7_Witness ==
    /\ pc = "reduce" /\ phase = "later" /\ callSteps >= 1 /\ ~StartLatched
    /\ Len(buf.dones) > callSteps

(***************************************************************************)
(* C8. In every reachable state the observation window holds at most       *)
(* n_obs + 1 entries and so does every info-field window.                  *)
(***************************************************************************)
C8_WindowsBounded ==
    /\ Len(buf.obs) <= n_obs + 1
    /\ \A k \in DOMAIN buf.infos : Len(buf.infos[k]) <= n_obs + 1

\* Both kinds of window are full after more values than they can hold arrived.
C8_Witness ==
    /\ Len(obsHist) > n_obs + 1 /\ Len(buf.obs) = n_obs + 1
    /\ epSteps > n_obs + 1
    /\ \E k \in DOMAIN buf.infos : Len(buf.infos[k]) = n_obs + 1

(***************************************************************************)
(* C9. Whenever a step call returns, and after every completed inner step, *)
(* the rewards list and the terminations list have the same length.        *)
(***************************************************************************)
C9_RewardsDonesParallel ==
    Len(buf.rewards) = Len(buf.dones)

\* Inside a call, after an inner step, with entries of an earlier call present.
C9_Witness ==
    /\ pc = "loop" /\ callSteps = 1
    /\ Len(buf.rewards) = 3 /\ Len(buf.dones) = 3

(***************************************************************************)
(* C10. reset carries no buffer state across episodes: right after reset   *)
(* the observation window holds exactly the reset observation and the      *)
(* rewards, terminations and info windows are empty; a termination         *)
(* recorded before the reset does not suppress the inner steps of the      *)
(* first step call after it.                                               *)
(***************************************************************************)
C10_ResetDiscardsBuffer ==
    /\ ResetCompleted =>
          /\ buf.obs = << obsHist[1] >> /\ Len(obsHist) = 1
          /\ buf.rewards = <<>> /\ buf.dones = <<>> /\ buf.infos = EmptyMap
    /\ (phase \in {"reset", "resetAfterDone"} /\ pc = "reduce") =>
          /\ callSteps >= 1
          /\ Len(buf.dones) = callSteps

\* The first step call after a reset that followed a recorded termination has
\* executed an inner step.
C10_Witness ==
    phase = "resetAfterDone" /\ pc = "reduce" /\ callSteps >= 1

(***************************************************************************)
(* C11. The done flag returned by step is true if and only if some inner   *)
(* step recorded in the buffer signalled terminated or truncated, or a     *)
(* ceiling is configured and the number of reward entries has reached it.  *)
(* Stated as the claim; the code violates it because step raises TypeError *)
(* (see C1) instead of returning, also when a termination is recorded.     *)
(***************************************************************************)
C11_DoneIffTerminatedOrCeiling ==
    (StepCompleted /\ ValidMode)
        => ((ret.kind = "ok" /\ ret.done)
               <=> (AnyTrue(buf.dones) \/ (max_ep # 0 /\ Len(buf.rewards) >= max_ep)))

(***************************************************************************)
(* C12. In a step call that starts with no termination recorded and in     *)
(* which no inner step signals terminated or truncated, the environment is *)
(* stepped exactly n_action times, once per supplied action in the         *)
(* supplied order, and every inner step appends one observation, one       *)
(* reward, one termination flag and one info record to the buffer.         *)
(***************************************************************************)
C12_AllActionsExecutedInOrder ==
    /\ pc \in {"loop", "reduce"} =>
          /\ envLog = SubSeq(callArg, 1, callSteps)
          /\ Len(buf.rewards) = epSteps /\ Len(buf.dones) = epSteps
          /\ Len(obsHist) = epSteps + (IF phase = "new" THEN 0 ELSE 1)
          /\ buf.obs = LastN(obsHist, n_obs + 1)
          /\ DOMAIN buf.infos = DOMAIN infoHist
          /\ \A k \in DOMAIN buf.infos : buf.infos[k] = LastN(infoHist[k], n_obs + 1)
    /\ (pc = "reduce" /\ ~StartLatched /\ ~AnyTrue(CallDones)) =>
          /\ callSteps = n_action
          /\ Len(callArg) = n_action
          /\ envLog = callArg

\* A call of two different actions has run both, in order, with no termination.
C12_Witness ==
    /\ pc = "reduce" /\ n_action = 2 /\ callSteps = 2
    /\ ~AnyTrue(buf.dones)
    /\ callArg = << "v", "u" >> /\ envLog = << "v", "u" >>
    /\ Len(buf.rewards) = 4

(***************************************************************************)
(* C13. For every info field seen in an inner step since the last reset,   *)
(* the stacked info returned by step holds that field with exactly n_obs   *)
(* entries: its n_obs most recent values, oldest first, left-padded with   *)
(* the earliest value recorded for it when fewer than n_obs were recorded. *)
(* Stated as the claim; the code violates it because step raises TypeError *)
(* (see C1) before the stacked info is returned, and stacking an info      *)
(* window, itself a deque, raises TypeError as well.                       *)
(***************************************************************************)
C13_StepReturnsStackedInfo ==
    (StepCompleted /\ ValidMode)
        => /\ ret.kind = "ok"
           /\ DOMAIN ret.info = DOMAIN infoHist
           /\ \A k \in DOMAIN infoHist : ret.info[k] = RecentWindow(infoHist[k], n_obs)

(***************************************************************************)
(* Single calls of the pure functions, on inputs drawn from bounded sets.  *)
(***************************************************************************)
MaxHist == 4        \* histories given to stack_last hold 1..MaxHist frames
MaxStackN == 4      \* stack_last is asked for 1..MaxStackN frames
MaxRewards == 3     \* buffers given to reduce hold 1..MaxRewards rewards

RewardSet == {-1, 2, 5}
AggChoices == ReduceModes \cup {"median", ""}

\* The non-empty sequences over S of length at most n.
NonEmptySeqs(S, n) == SeqsUpTo(S, n) \ { << >> }

\* The controller, freshly constructed and left alone.
Untouched ==
    /\ n_obs = 1 /\ n_action = 1 /\ reward_reduce = "max" /\ max_ep = 0
    /\ pc = "idle" /\ pending = <<>> /\ ret = NoCall
    /\ obsHist = <<>> /\ callSteps = 0 /\ envLog = <<>> /\ epSteps = 0
    /\ phase = "new" /\ callArg = <<>> /\ infoHist = EmptyMap
    /\ spaces = Construct("vec", "vec", 1, 1)

controller == << n_obs, n_action, reward_reduce, max_ep, pc, pending, ret, obsHist,
                 callSteps, envLog, epSteps, phase, callArg, infoHist, spaces >>

\* A call stack_last(arr, n) about to be made.
InitStack ==
    /\ Untouched
    /\ buf = StepBuffers(1)
    /\ \E arr \in NonEmptySeqs(ObsSet, MaxHist), n \in 1..MaxStackN :
           probe = Probe("stack_last", [arr |-> arr, n |-> n], "pending", << >>)

\* A call buf.reduce(agg) about to be made, on a buffer that holds as many
\* termination flags as rewards.
InitReduce ==
    /\ Untouched
    /\ \E rs \in NonEmptySeqs(RewardSet, MaxRewards), agg \in AggChoices :
         \E ds \in { d \in SeqsUpTo(BOOLEAN, MaxRewards) : Len(d) = Len(rs) } :
           /\ buf = [StepBuffers(1) EXCEPT !.rewards = rs, !.dones = ds]
           /\ probe = Probe("reduce", [agg |-> agg, rewards |-> rs, dones |-> ds],
                            "pending", << >>)

InitPure == InitStack \/ InitReduce

ApplyStackLast ==
    /\ probe.fn = "stack_last" /\ probe.kind = "pending"
    /\ probe' = [probe EXCEPT !.kind = "ok",
                              !.out = stack_last(probe.args.arr, probe.args.n)]
    /\ UNCHANGED << controller, buf >>

ApplyReduce ==
    /\ probe.fn = "reduce" /\ probe.kind = "pending"
    /\ LET red == reduce(buf, probe.args.agg)
       IN  probe' = [probe EXCEPT !.kind = red.kind,
                                  !.out = [reward |-> red.reward, done |-> red.done]]
    /\ UNCHANGED << controller, buf >>

NextPure == ApplyStackLast \/ ApplyReduce

SpecPure == InitPure /\ [][NextPure]_vars

(***************************************************************************)
(* C14. For every non-empty history h and every n >= 1, stack_last(h, n)   *)
(* has exactly n frames: the last n frames of h, oldest first, when h has  *)
(* at least n; otherwise n - len(h) copies of h[0] followed by h in order  *)
(* (h = [A, B], n = 4 gives [A, A, A, B]).                                 *)
(***************************************************************************)
C14_StackLastShapeAndContent ==
    (probe.fn = "stack_last" /\ probe.kind # "pending") =>
        LET h   == probe.args.arr
            n   == probe.args.n
            out == probe.out
        IN  /\ probe.kind = "ok"
            /\ Len(out) = n
            /\ Len(h) >= n => \A j \in 1..n : out[j] = h[Len(h) - n + j]
            /\ Len(h) < n =>
                  /\ \A j \in 1..(n - Len(h)) : out[j] = h[1]
                  /\ \A j \in 1..Len(h) : out[n - Len(h) + j] = h[j]

\* The example of the spec: h = [A, B], n = 4.
C14_Witness ==
    /\ probe.fn = "stack_last" /\ probe.kind = "ok"
    /\ probe.args = [arr |-> << "A", "B" >>, n |-> 4]
    /\ probe.out = << "A", "A", "A", "B" >>

(***************************************************************************)
(* C15. For a non-empty reward list and a mode among max, min, mean, sum,  *)
(* reduce returns the named reduction of the whole reward list and the     *)
(* logical OR of the whole termination list, and modifies neither list;    *)
(* for any other mode it raises an error instead of returning.             *)
(***************************************************************************)
Items(s) == { s[j] : j \in 1..Len(s) }
Total(s) ==
    LET f[i \in 0..Len(s)] == IF i = 0 THEN 0 ELSE f[i - 1] + s[i] IN f[Len(s)]

\* Float v is the reduction named agg of the non-empty list rs.
IsReduction(v, agg, rs) ==
    CASE agg = "max"  -> v[2] = 1 /\ v[1] \in Items(rs) /\ \A e \in Items(rs) : e <= v[1]
      [] agg = "min"  -> v[2] = 1 /\ v[1] \in Items(rs) /\ \A e \in Items(rs) : e >= v[1]
      [] agg = "sum"  -> v[2] = 1 /\ v[1] = Total(rs)
      [] agg = "mean" -> /\ v[2] >= 1 /\ v[1] * Len(rs) = v[2] * Total(rs)
                         /\ \A d \in 2..v[2] : ~(v[1] % d = 0 /\ v[2] % d = 0)

C15_ReduceWholeLists ==
    (probe.fn = "reduce" /\ probe.kind # "pending") =>
        LET agg == probe.args.agg
            rs  == probe.args.rewards
            ds  == probe.args.dones
        IN  /\ buf.rewards = rs /\ buf.dones = ds
            /\ agg \in {"max", "min", "mean", "sum"} =>
                  /\ probe.kind = "ok"
                  /\ IsReduction(probe.out.reward, agg, rs)
                  /\ probe.out.done = (TRUE \in Items(ds))
            /\ agg \notin {"max", "min", "mean", "sum"} => probe.kind = "ValueError"

\* The mean of three rewards, with a termination recorded before the last entry.
C15_Witness ==
    /\ probe.fn = "reduce" /\ probe.kind = "ok"
    /\ probe.args = [agg |-> "mean", rewards |-> << -1, 5, -1 >>,
                     dones |-> << FALSE, TRUE, FALSE >>]
    /\ probe.out = [reward |-> << 1, 1 >>, done |-> TRUE]

(***************************************************************************)
(* Construction over the spaces an environment may declare, and reads of   *)
(* the two space properties of the wrapper.                                *)
(***************************************************************************)
\* MultiStep.observation_space: return self._obs_space
observation_space(sp) == [kind |-> "ok", val |-> sp.obs]

\* MultiStep.action_space: return self_act_space -- the name self_act_space is
\* bound nowhere, so evaluating it raises NameError.
action_space(sp) == [kind |-> "NameError", val |-> NoSpace]

InitSpaces ==
    /\ n_obs \in 1..MaxNObs
    /\ n_action \in 1..MaxNAction
    /\ reward_reduce = "max" /\ max_ep = 0
    /\ buf = StepBuffers(n_obs)
    /\ pc = "idle" /\ pending = <<>> /\ ret = NoCall
    /\ obsHist = <<>> /\ callSteps = 0 /\ envLog = <<>> /\ epSteps = 0
    /\ phase = "new" /\ callArg = <<>> /\ infoHist = EmptyMap
    /\ \E o \in SpaceNames, a \in SpaceNames : spaces = Construct(o, a, n_obs, n_action)
    /\ probe = NoProbe

\* Reading a property of a wrapper whose construction succeeded.
ReadObservationSpace ==
    /\ spaces.ctor = "ok"
    /\ LET g == observation_space(spaces)
       IN  probe' = Probe("observation_space", << >>, g.kind, g.val)
    /\ UNCHANGED << controller, buf >>

ReadActionSpace ==
    /\ spaces.ctor = "ok"
    /\ LET g == action_space(spaces)
       IN  probe' = Probe("action_space", << >>, g.kind, g.val)
    /\ UNCHANGED << controller, buf >>

NextSpaces == ReadObservationSpace \/ ReadActionSpace

SpecSpaces == InitSpaces /\ [][NextSpaces]_vars

(***************************************************************************)
(* C16. The wrapper's observation_space and action_space are readable and  *)
(* equal stack(wrapped observation space, n_obs) and stack(wrapped action  *)
(* space, n_action): a Leaf of shape s becomes a Leaf of shape (n,) + s    *)
(* whose bounds are the original bounds repeated n times along the new     *)
(* leading axis, a Mapping is stacked key by key with its keys unchanged,  *)
(* and any other kind of space is an error.                                *)
(* Stated as the claim; the code violates it: reading action_space raises  *)
(* NameError.                                                              *)
(***************************************************************************)
Size(a) == Len(a.data)

\* Array out is array a repeated n times along a new leading axis.
IsRepeated(out, a, n) ==
    /\ out.shape = << n >> \o a.shape
    /\ Len(out.data) = n * Size(a)
    /\ \A i \in 1..Len(out.data) : out.data[i] = a.data[((i - 1) % Size(a)) + 1]

\* Space sp is made of Leaf and Mapping spaces only.
RECURSIVE Stackable(_)
Stackable(sp) ==
    \/ sp.kind = "Box"
    \/ sp.kind = "Dict" /\ \A k \in DOMAIN sp.items : Stackable(sp.items[k])

\* Space out is stack(sp, n).
RECURSIVE IsStacked(_, _, _)
IsStacked(out, sp, n) ==
    \/ /\ sp.kind = "Box" /\ out.kind = "Box"
       /\ IsRepeated(out.low, sp.low, n) /\ IsRepeated(out.high, sp.high, n)
    \/ /\ sp.kind = "Dict" /\ out.kind = "Dict"
       /\ DOMAIN out.items = DOMAIN sp.items
       /\ \A k \in DOMAIN sp.items : IsStacked(out.items[k], sp.items[k], n)

C16_SpacesReadableAndStacked ==
    /\ spaces.ctor = "TypeError" <=> ~(Stackable(spaces.env_obs) /\ Stackable(spaces.env_act))
    /\ probe.fn = "observation_space" =>
          probe.kind = "ok" /\ IsStacked(probe.out, spaces.env_obs, n_obs)
    /\ probe.fn = "action_space" =>
          probe.kind = "ok" /\ IsStacked(probe.out, spaces.env_act, n_action)

(***************************************************************************)
(* C17. Once an inner step has returned terminated or truncated, every     *)
(* later step call before the next reset invokes the wrapped environment's *)
(* step zero times, leaves the whole buffer unchanged, and returns the     *)
(* same stacked observation, reward, done = TRUE and stacked info as the   *)
(* call in which the termination occurred.                                 *)
(* Stated as the claim for a completed call that started with a recorded   *)
(* termination; the code violates it: the call raises TypeError instead of *)
(* returning.                                                              *)
(***************************************************************************)
C17_LatchedCallRepeatsResult ==
    (StepCompleted /\ StartLatched /\ ValidMode) =>
        /\ callSteps = 0
        /\ ret.kind = "ok"
        /\ ret.done
        /\ ret.obs = RecentWindow(obsHist, n_obs)
        /\ ret.reward = AggFn(reward_reduce, buf.rewards)

(***************************************************************************)
(* C18. Whenever a step call with n_action >= 1 actions reaches the        *)
(* reduction, the buffer's reward list is non-empty, also for a call made  *)
(* before any reset and for a call that executes zero inner steps because  *)
(* a termination is already recorded.                                      *)
(***************************************************************************)
C18_RewardsNonEmptyAtReduce ==
    pc = "reduce" => buf.rewards # << >>

\* A call made before any reset reached the reduction without executing an
\* inner step, a termination being recorded already.
C18_Witness ==
    pc = "reduce" /\ callSteps = 0 /\ phase = "new" /\ buf.rewards # << >>

(***************************************************************************)
(* C19. A done = TRUE that is forced only by the episode ceiling is not    *)
(* recorded in the buffer's termination list: if no inner step has         *)
(* signalled terminated or truncated, a further step call without reset    *)
(* still executes inner environment steps even though the previous step    *)
(* call already returned done = TRUE, so the number of inner steps in an   *)
(* episode can exceed max_episode_steps.                                   *)
(* Stated as the claim: a call that ends with the ceiling reached and no   *)
(* recorded termination returns done = TRUE, and a call that starts with   *)
(* no recorded termination executes inner steps.  The code violates the    *)
(* first part: the call raises TypeError instead of returning.             *)
(***************************************************************************)
C19_CeilingDoneNotLatched ==
    /\ (StepCompleted /\ ValidMode /\ Ceiling(buf, max_ep) /\ ~AnyTrue(buf.dones))
          => (ret.kind = "ok" /\ ret.done)
    /\ (pc = "reduce" /\ ~StartLatched) => callSteps >= 1

(***************************************************************************)
(* C20. In every reachable state the buffer's termination list contains at *)
(* most one true entry and, if it contains one, that entry is the last     *)
(* element of the list.                                                    *)
(***************************************************************************)
C20_OnlyLastFlagTrue ==
    \A i \in 1..Len(buf.dones) : buf.dones[i] => i = Len(buf.dones)

\* A termination recorded after earlier inner steps, with a later step call made.
C20_Witness ==
    /\ Len(buf.dones) >= 2 /\ buf.dones[Len(buf.dones)]
    /\ pc = "reduce" /\ callSteps = 0

=============================================================================
